---- MODULE Spec2Model ----
(***************************************************************************)
(* A model of agentic_issues: the Issue data model (models.py), the         *)
(* per-project JSON file storage (storage.py), the submit command of       *)
(* cli.py as the caller that creates and saves an issue, and the list      *)
(* command in its two implementations (cli.py and ag_issues.py).           *)
(*                                                                         *)
(* Python values are modelled with tagged records so that a value and its  *)
(* JSON encoding are different things: an enum member is not its string,   *)
(* a datetime is not its ISO-8601 text, None is not JSON null.             *)
(***************************************************************************)
EXTENDS Integers, Sequences, FiniteSets, TLC

VARIABLES
    files,   \* issues_dir: project id -> content of <project id>.json
    uuids,   \* the ids uuid.uuid4() has handed out so far
    last,    \* the last completed call: its arguments, the files before it, its result
    procs,   \* concurrent save_issue calls: per process its position and locals
    wrote,   \* the processes whose write has completed, in order
    mem      \* the Issue objects a caller holds in memory, by id

vars == <<files, uuids, last, procs, wrote, mem>>

(***************************************************************************)
(* Bounds of the model.                                                    *)
(***************************************************************************)
MaxIssues == 3      \* issues stored over all projects (guards of the saving actions)
MaxComments == 2    \* comments of an issue in the round-trip universe
MaxLabels == 2      \* labels of an issue in the round-trip universe

Projects == {"widget", "gadget"}
Ids == {"id1", "id2", "id3"}

(***************************************************************************)
(* Python values.                                                          *)
(***************************************************************************)
None == [py |-> "None"]
PyStr(s) == [py |-> "str", v |-> s]
datetime(s, u) == [py |-> "datetime", sec |-> s, usec |-> u]

\* The outcome of a call: a returned value or a raised exception.
Ok(v) == [ok |-> TRUE, val |-> v]
Raise(e) == [ok |-> FALSE, exc |-> e]

\* models.py: class IssueStatus(enum.Enum), name -> value
IssueStatusValues ==
    [OPEN |-> "open", IN_PROGRESS |-> "in_progress",
     RESOLVED |-> "resolved", CLOSED |-> "closed"]

\* models.py: class IssuePriority(enum.Enum), name -> value
IssuePriorityValues ==
    [LOW |-> "low", MEDIUM |-> "medium", HIGH |-> "high", CRITICAL |-> "critical"]

Member(cls, name) == [py |-> "enum", cls |-> cls, name |-> name]
IssueStatus == {Member("IssueStatus", n) : n \in DOMAIN IssueStatusValues}
IssuePriority == {Member("IssuePriority", n) : n \in DOMAIN IssuePriorityValues}

\* o.value of an enum member
EnumValue(o) ==
    IF o.cls = "IssueStatus" THEN IssueStatusValues[o.name]
    ELSE IssuePriorityValues[o.name]

\* IssueStatus(s): the member whose value is s, ValueError when there is none
IssueStatusOf(s) ==
    IF \E n \in DOMAIN IssueStatusValues : IssueStatusValues[n] = s
    THEN Ok(Member("IssueStatus",
                   CHOOSE n \in DOMAIN IssueStatusValues : IssueStatusValues[n] = s))
    ELSE Raise("ValueError")

\* IssuePriority(s)
IssuePriorityOf(s) ==
    IF \E n \in DOMAIN IssuePriorityValues : IssuePriorityValues[n] = s
    THEN Ok(Member("IssuePriority",
                   CHOOSE n \in DOMAIN IssuePriorityValues : IssuePriorityValues[n] = s))
    ELSE Raise("ValueError")

(***************************************************************************)
(* JSON values. A JSON string that holds ISO-8601 text is modelled by the  *)
(* fields of that text: seconds, and microseconds when isoformat() prints  *)
(* them.                                                                   *)
(***************************************************************************)
JNull == [j |-> "null"]
JStr(s) == [j |-> "str", v |-> s]
JIso(fields) == [j |-> "str", v |-> fields]

\* datetime.isoformat(): the fraction is printed only when microsecond # 0
isoformat(o) ==
    IF o.usec = 0 THEN JIso(<<o.sec>>) ELSE JIso(<<o.sec, o.usec>>)

\* datetime.fromisoformat(s)
fromisoformat(s) ==
    IF Len(s.v) = 1 THEN datetime(s.v[1], 0) ELSE datetime(s.v[1], s.v[2])

\* bool(x) of a decoded JSON value that is null or a string
Truthy(x) == x.j # "null" /\ Len(x.v) > 0

(***************************************************************************)
(* storage.py: the encoding contract.                                      *)
(***************************************************************************)
\* default() writing an enum member's name instead of its value
EnhancedJSONEncoder_default_WritesName(o) ==
    IF o.py = "enum" THEN o.name ELSE isoformat(o)

\* EnhancedJSONEncoder.default(o): an enum member becomes its value, a
\* datetime its ISO-8601 text
EnhancedJSONEncoder_default(o) ==
    IF o.py = "enum" THEN EnumValue(o) ELSE isoformat(o)

\* json.dump of one field: None and str are JSON's own, anything else goes
\* through the encoder's default()
JsonOf(o) ==
    CASE o.py = "None" -> JNull
      [] o.py = "str" -> JStr(o.v)
      [] OTHER -> EnhancedJSONEncoder_default(o)

\* json.load of one field that _decode_issue does not convert
PyOf(x) == IF x.j = "null" THEN None ELSE PyStr(x.v)

EncodeComment(c) ==
    [id |-> c.id, issue_id |-> c.issue_id, author |-> c.author,
     content |-> c.content,
     created_at |-> JsonOf(c.created_at), updated_at |-> JsonOf(c.updated_at)]

\* dataclasses.asdict(i) written by json.dump(..., cls=EnhancedJSONEncoder)
EncodeIssue(i) ==
    [id |-> i.id, project_id |-> i.project_id, title |-> i.title,
     description |-> i.description,
     status |-> JsonOf(i.status), priority |-> JsonOf(i.priority),
     author |-> i.author, assignee |-> JsonOf(i.assignee),
     created_at |-> JsonOf(i.created_at), updated_at |-> JsonOf(i.updated_at),
     comments |-> [k \in 1..Len(i.comments) |-> EncodeComment(i.comments[k])],
     labels |-> i.labels]

\* a timestamp field of _decode_issue: converted only when truthy
DecodeTime(x) == IF Truthy(x) THEN fromisoformat(x) ELSE PyOf(x)

\* the body of the comment loop of _decode_issue
DecodeComment(cd) ==
    [id |-> cd.id, issue_id |-> cd.issue_id, author |-> cd.author,
     content |-> cd.content,
     created_at |-> DecodeTime(cd.created_at),
     updated_at |-> DecodeTime(cd.updated_at)]

_decode_issue(d) ==
    LET st == IssueStatusOf(d.status)
        pr == IssuePriorityOf(d.priority)
    IN  IF ~st.ok THEN st
        ELSE IF ~pr.ok THEN pr
        ELSE Ok([id |-> d.id, project_id |-> d.project_id, title |-> d.title,
                 description |-> d.description,
                 status |-> st.val, priority |-> pr.val,
                 author |-> d.author, assignee |-> PyOf(d.assignee),
                 created_at |-> DecodeTime(d.created_at),
                 updated_at |-> DecodeTime(d.updated_at),
                 comments |-> [k \in 1..Len(d.comments) |-> DecodeComment(d.comments[k])],
                 labels |-> d.labels])

(***************************************************************************)
(* The issues directory. A project's file is absent, or holds text; the    *)
(* text either is a JSON document (modelled by the document) or is not     *)
(* (an empty file, a truncated one).                                       *)
(***************************************************************************)
Absent == [kind |-> "absent"]
JsonFile(doc) == [kind |-> "file", syntax |-> "json", doc |-> doc]
TextFile(raw) == [kind |-> "file", syntax |-> "text", raw |-> raw]

\* project_file.exists()
exists(f) == f.kind = "file"

json_load(f) ==
    IF f.syntax = "json" THEN Ok(f.doc) ELSE Raise("JSONDecodeError")

\* json.dump([dataclasses.asdict(i) for i in issues], f, cls=EnhancedJSONEncoder)
json_dump(issues) ==
    JsonFile([k \in 1..Len(issues) |-> EncodeIssue(issues[k])])

\* the list comprehension of get_issues skipping the records that fail to decode
Collect_DropsBad(dec) ==
    LET good(r) == r.ok
        kept == SelectSeq(dec, good)
    IN  Ok([k \in 1..Len(kept) |-> kept[k].val])

\* [_decode_issue(issue_dict) for issue_dict in issues_data], given each
\* element's outcome: the first exception raised, or the decoded list
Collect(dec) ==
    LET bad == {k \in 1..Len(dec) : ~dec[k].ok}
    IN  IF bad # {}
        THEN dec[CHOOSE k \in bad : \A m \in bad : k <= m]
        ELSE Ok([k \in 1..Len(dec) |-> dec[k].val])

\* get_issues without the exists() test: open() of a missing file raises
get_issues_NoExistsTest(fs, project_id) ==
    IF ~exists(fs[project_id]) THEN Raise("FileNotFoundError")
    ELSE IF ~json_load(fs[project_id]).ok THEN Ok(<<>>)
    ELSE Collect([k \in 1..Len(fs[project_id].doc) |->
                     _decode_issue(json_load(fs[project_id]).val[k])])

\* get_issues without the except clause: json.JSONDecodeError propagates
get_issues_NoExcept(fs, project_id) ==
    IF ~exists(fs[project_id]) THEN Ok(<<>>)
    ELSE IF ~json_load(fs[project_id]).ok THEN json_load(fs[project_id])
    ELSE Collect([k \in 1..Len(fs[project_id].doc) |->
                     _decode_issue(json_load(fs[project_id]).val[k])])

\* IssueStorage.get_issues: only json.JSONDecodeError is caught
get_issues(fs, project_id) ==
    IF ~exists(fs[project_id]) THEN Ok(<<>>)
    ELSE IF ~json_load(fs[project_id]).ok THEN Ok(<<>>)
    ELSE Collect([k \in 1..Len(fs[project_id].doc) |->
                     _decode_issue(json_load(fs[project_id]).val[k])])

\* the positions of the records of a list that carry an id
PositionsOfId(issues, id) == {k \in 1..Len(issues) : issues[k].id = id}

\* next((i for i, x in enumerate(issues) if x.id == issue.id), None), 1-based,
\* 0 for None
IndexOfId(issues, id) ==
    IF \E k \in 1..Len(issues) : issues[k].id = id
    THEN CHOOSE k \in 1..Len(issues) :
            /\ issues[k].id = id
            /\ \A m \in 1..(k - 1) : issues[m].id # id
    ELSE 0

\* Upsert without the lookup: the issue is appended whether or not its id is stored
Upsert_AlwaysAppend(issues, issue) == Append(issues, issue)

\* Upsert that puts a new issue first
Upsert_Prepend(issues, issue) ==
    IF PositionsOfId(issues, issue.id) # {}
    THEN [k \in 1..Len(issues) |->
             IF issues[k].id = issue.id THEN issue ELSE issues[k]]
    ELSE <<issue>> \o issues

\* Upsert that replaces the stored record and appends the issue as well
Upsert_ReplaceAndAppend(issues, issue) ==
    Append([k \in 1..Len(issues) |->
               IF issues[k].id = issue.id THEN issue ELSE issues[k]], issue)

\* save_issue, "Update or add the issue"
Upsert(issues, issue) ==
    LET issue_index == IndexOfId(issues, issue.id)
    IN  IF issue_index # 0 THEN [issues EXCEPT ![issue_index] = issue]
        ELSE Append(issues, issue)

\* open(project_file, "w"): the file exists and is empty
Truncate(fs, project_id) == [fs EXCEPT ![project_id] = TextFile("")]

\* a write that puts the list into the file of every project
WriteBack_EveryProject(fs, issues, issue) ==
    [q \in DOMAIN fs |-> json_dump(Upsert(issues, issue))]

\* a write that loads the file again and upserts into what it holds now,
\* falling back to the list loaded earlier when the file holds nothing
WriteBack_MergesCurrent(fs, issues, issue) ==
    LET now == get_issues(fs, issue.project_id)
        base == IF now.ok /\ Len(now.val) > 0 THEN now.val ELSE issues
    IN  [fs EXCEPT ![issue.project_id] = json_dump(Upsert(base, issue))]

\* save_issue, "Save all issues back to the file", after the load
WriteBack(fs, issues, issue) ==
    [fs EXCEPT ![issue.project_id] = json_dump(Upsert(issues, issue))]

\* the stored list of a project, as get_issues returns it
Stored(fs, p) == get_issues(fs, p).val

\* a save_issue that refuses to write over a file that is no JSON document
save_issue_RefusesCorrupt(fs, issue) ==
    LET loaded == get_issues(fs, issue.project_id)
    IN  IF exists(fs[issue.project_id]) /\ ~json_load(fs[issue.project_id]).ok
        THEN [files |-> fs, ret |-> Raise("JSONDecodeError")]
        ELSE IF ~loaded.ok THEN [files |-> fs, ret |-> loaded]
        ELSE [files |-> WriteBack(fs, loaded.val, issue), ret |-> Ok(None)]

\* a save_issue that opens the file for writing before it loads the list
save_issue_OpensFirst(fs, issue) ==
    LET loaded == get_issues(fs, issue.project_id)
    IN  IF ~loaded.ok THEN [files |-> Truncate(fs, issue.project_id), ret |-> loaded]
        ELSE [files |-> WriteBack(fs, loaded.val, issue), ret |-> Ok(None)]

\* IssueStorage.save_issue run alone: the files after it and its outcome
save_issue(fs, issue) ==
    LET loaded == get_issues(fs, issue.project_id)
    IN  IF ~loaded.ok THEN [files |-> fs, ret |-> loaded]
        ELSE [files |-> WriteBack(fs, loaded.val, issue), ret |-> Ok(None)]

\* a get_issue that hands out the first issue of the project when the id is
\* not stored
get_issue_FallsBackToFirst(fs, project_id, issue_id) ==
    LET loaded == get_issues(fs, project_id)
    IN  IF ~loaded.ok THEN loaded
        ELSE LET k == IndexOfId(loaded.val, issue_id)
             IN  IF k # 0 THEN Ok(loaded.val[k])
                 ELSE IF Len(loaded.val) > 0 THEN Ok(loaded.val[1]) ELSE Ok(None)

\* IssueStorage.get_issue
get_issue(fs, project_id, issue_id) ==
    LET loaded == get_issues(fs, project_id)
    IN  IF ~loaded.ok THEN loaded
        ELSE LET k == IndexOfId(loaded.val, issue_id)
             IN  IF k = 0 THEN Ok(None) ELSE Ok(loaded.val[k])

\* the filter of delete_issue cutting the list at the first match
WithoutId_CutsAtMatch(issues, issue_id) ==
    IF PositionsOfId(issues, issue_id) = {} THEN issues
    ELSE SubSeq(issues, 1, IndexOfId(issues, issue_id) - 1)

\* [i for i in issues if i.id != issue_id]
WithoutId(issues, issue_id) ==
    LET keep(i) == i.id # issue_id IN SelectSeq(issues, keep)

\* delete_issue without the early return: the file is always rewritten
delete_issue_AlwaysWrites(fs, project_id, issue_id) ==
    LET loaded == get_issues(fs, project_id)
    IN  IF ~loaded.ok THEN [files |-> fs, ret |-> loaded]
        ELSE [files |-> [fs EXCEPT ![project_id] =
                             json_dump(WithoutId(loaded.val, issue_id))],
              ret |-> Ok(Len(WithoutId(loaded.val, issue_id)) # Len(loaded.val))]

\* IssueStorage.delete_issue
delete_issue(fs, project_id, issue_id) ==
    LET loaded == get_issues(fs, project_id)
    IN  IF ~loaded.ok THEN [files |-> fs, ret |-> loaded]
        ELSE LET issues == WithoutId(loaded.val, issue_id)
             IN  IF Len(issues) = Len(loaded.val)
                 THEN [files |-> fs, ret |-> Ok(FALSE)]
                 ELSE [files |-> [fs EXCEPT ![project_id] = json_dump(issues)],
                       ret |-> Ok(TRUE)]

\* IssueStorage.get_all_project_ids: the stems of the *.json files
get_all_project_ids(fs) == {p \in DOMAIN fs : exists(fs[p])}

(***************************************************************************)
(* models.py: Issue.create, and cli.py: the submit command.                *)
(***************************************************************************)
PyList(seq) == [py |-> "list", v |-> seq]

\* labels or []
OrEmptyList(labels) ==
    IF labels.py = "None" THEN <<>> ELSE labels.v

\* Issue.create; uuid is str(uuid.uuid4()), now is datetime.datetime.now()
\* taken by the created_at default factory
IssueCreate(project_id, title, description, author, priority, labels, uuid, now) ==
    [id |-> uuid, project_id |-> project_id, title |-> title,
     description |-> description,
     status |-> Member("IssueStatus", "OPEN"), priority |-> priority,
     author |-> author, assignee |-> None,
     created_at |-> now, updated_at |-> None,
     comments |-> <<>>, labels |-> OrEmptyList(labels)]

\* str.lower() on the command-line words the model uses
Lower(s) ==
    CASE s = "HIGH" -> "high"
      [] s = "Critical" -> "critical"
      [] s = "URGENT" -> "urgent"
      [] s = "CLOSED" -> "closed"
      [] OTHER -> s

\* str.strip() on the label pieces the model uses
Strip(s) ==
    CASE s = " ui" -> "ui"
      [] s = "bug " -> "bug"
      [] s = " " -> ""
      [] OTHER -> s

\* A command-line string that may hold commas is modelled by its pieces
\* between the commas: "bug, ui" is PyStr(<<"bug", " ui">>), "" is PyStr(<<"">>).
\* bool(args.x) of an optional command-line string
Given(x) == x.py = "str" /\ x.v # ""

\* bool(args.labels)
GivenPieces(x) == x.py = "str" /\ x.v # <<"">>

\* [label.strip() for label in args.labels.split(",")]
SplitLabels(x) == [k \in 1..Len(x.v) |-> Strip(x.v[k])]

\* cmd_submit, "Parse priority"
ParsePriority(x) ==
    IF ~Given(x) THEN Member("IssuePriority", "MEDIUM")
    ELSE LET parsed == IssuePriorityOf(Lower(x.v))
         IN  IF parsed.ok THEN parsed.val ELSE Member("IssuePriority", "MEDIUM")

\* cmd_submit: args are the parsed arguments, cwd_project is what
\* get_current_project_id() returns, user what get_current_user() returns,
\* stdin the text typed when no description is given
cmd_submit(fs, args, cwd_project, user, stdin, uuid, now) ==
    LET project == IF Given(args.project) THEN args.project ELSE cwd_project
        none == [files |-> fs, ret |-> Ok(1), issue |-> None, project |-> ""]
    IN  IF ~Given(project) THEN none
        ELSE IF ~Given(args.title) THEN none
        ELSE LET description ==
                     IF Given(args.description) THEN args.description.v ELSE stdin
                 labels == IF GivenPieces(args.labels) THEN PyList(SplitLabels(args.labels))
                           ELSE PyList(<<>>)
                 issue == IssueCreate(project.v, args.title.v, description, user,
                                      ParsePriority(args.priority), labels, uuid, now)
                 saved == save_issue(fs, issue)
             IN  [files |-> saved.files,
                  ret |-> IF saved.ret.ok THEN Ok(0) ELSE saved.ret,
                  issue |-> issue, project |-> project.v]

(***************************************************************************)
(* The calls, one action each. Every action records the call in last.      *)
(***************************************************************************)
Call(op, input, project, id, issue, ret) ==
    [op |-> op, input |-> input, project |-> project, id |-> id, issue |-> issue,
     pre |-> files, ret |-> ret]

NoProcs == [p \in {} |-> None]

\* no issue object is held in memory
NoMem == [i \in {} |-> None]

RECURSIVE StoredCount(_, _)
\* the number of issue records in the JSON documents of the projects in ps
StoredCount(fs, ps) ==
    IF ps = {} THEN 0
    ELSE LET p == CHOOSE q \in ps : TRUE
             n == IF exists(fs[p]) /\ fs[p].syntax = "json" THEN Len(fs[p].doc) ELSE 0
         IN  n + StoredCount(fs, ps \ {p})

\* get_current_user()
User == "dev"

\* the text typed at the description prompt
Stdin == "typed description"

\* the submit command; an input is the parsed arguments and what
\* get_current_project_id() returns in the working directory
Submit(inputSet, timeSet) ==
    \E input \in inputSet, uuid \in Ids \ uuids, now \in timeSet :
        \E r \in {cmd_submit(files, input.args, input.cwd, User, Stdin, uuid, now)} :
            /\ StoredCount(r.files, Projects) <= MaxIssues
            /\ files' = r.files
            /\ uuids' = IF r.issue = None THEN uuids ELSE uuids \cup {uuid}
            /\ last' = Call("submit", input, r.project,
                            IF r.issue = None THEN "" ELSE uuid, r.issue, r.ret)
            /\ UNCHANGED <<procs, wrote, mem>>

\* storage.save_issue(issue) for an issue object the caller holds
SaveIssue(issueSet) ==
    \E issue \in issueSet :
        \E r \in {save_issue(files, issue)} :
            /\ StoredCount(r.files, Projects) <= MaxIssues
            /\ files' = r.files
            /\ uuids' = uuids \cup {issue.id}
            /\ last' = Call("save_issue", None, issue.project_id, issue.id, issue, r.ret)
            /\ UNCHANGED <<procs, wrote, mem>>

\* storage.delete_issue(project_id, issue_id)
DeleteIssue ==
    \E p \in Projects, id \in Ids :
        \E r \in {delete_issue(files, p, id)} :
            /\ files' = r.files
            /\ last' = Call("delete_issue", None, p, id, None, r.ret)
            /\ UNCHANGED <<uuids, procs, wrote, mem>>

\* storage.get_issues(project_id)
GetIssues ==
    \E p \in Projects :
        /\ last' = Call("get_issues", None, p, "", None, get_issues(files, p))
        /\ UNCHANGED <<files, uuids, procs, wrote, mem>>

\* storage.get_issue(project_id, issue_id)
GetIssue ==
    \E p \in Projects, id \in Ids :
        /\ last' = Call("get_issue", None, p, id, None, get_issue(files, p, id))
        /\ UNCHANGED <<files, uuids, procs, wrote, mem>>

(***************************************************************************)
(* Spec: one process at a time, starting from an empty issues directory.   *)
(***************************************************************************)
SubmitArgs ==
    [project : {None, PyStr("gadget")},
     title : {PyStr("Crash on startup")},
     description : {PyStr("It crashes at launch")},
     priority : {None, PyStr("HIGH"), PyStr("urgent")},
     labels : {None}]

\* run inside the widget project, plus a run without a title and a run
\* outside any project
SubmitInputs ==
    {[args |-> a, cwd |-> PyStr("widget")] : a \in SubmitArgs}
    \cup {[args |-> [project |-> None, title |-> None, description |-> None,
                     priority |-> None, labels |-> None],
           cwd |-> c] : c \in {None, PyStr("widget")}}

Times == {datetime(10, 250)}

\* an issue as a caller holds it after get_issue and some mutations
EditedIssue(id, project_id) ==
    [id |-> id, project_id |-> project_id, title |-> "Crash on startup (retitled)",
     description |-> "It crashes at launch",
     status |-> Member("IssueStatus", "IN_PROGRESS"),
     priority |-> Member("IssuePriority", "LOW"),
     author |-> User, assignee |-> PyStr("alice"),
     created_at |-> datetime(10, 250), updated_at |-> datetime(11, 0),
     comments |-> <<[id |-> "c1", issue_id |-> id, author |-> User,
                     content |-> "reproduced", created_at |-> datetime(11, 0),
                     updated_at |-> None]>>,
     labels |-> <<"bug">>]

EditedIssues == {EditedIssue(id, p) : id \in Ids, p \in Projects}

NoCall ==
    [op |-> "none", input |-> None, project |-> "", id |-> "", issue |-> None,
     pre |-> [p \in Projects |-> Absent], ret |-> Ok(None)]

Init ==
    /\ files = [p \in Projects |-> Absent]
    /\ uuids = {}
    /\ last = NoCall
    /\ procs = NoProcs
    /\ wrote = <<>>
    /\ mem = NoMem

Next ==
    \/ Submit(SubmitInputs, Times)
    \/ SaveIssue(EditedIssues)
    \/ DeleteIssue
    \/ GetIssues
    \/ GetIssue

Spec == Init /\ [][Next]_vars

(***************************************************************************)
(* SpecProjects: save_issue and delete_issue calls on a directory that is  *)
(* empty at the start, and the listing of the projects.                    *)
(***************************************************************************)
\* storage.get_all_project_ids()
GetAllProjectIds ==
    /\ last' = Call("get_all_project_ids", None, "", "", None,
                    Ok(get_all_project_ids(files)))
    /\ UNCHANGED <<files, uuids, procs, wrote, mem>>

NextProjects ==
    \/ SaveIssue(EditedIssues)
    \/ DeleteIssue
    \/ GetAllProjectIds

SpecProjects == Init /\ [][NextProjects]_vars

(***************************************************************************)
(* SpecRoundTrip: one issue out of a wide universe (every status, every    *)
(* priority, updated_at set or unset, 0..MaxComments comments,             *)
(* 0..MaxLabels labels) is saved into a directory that is empty or holds   *)
(* one issue, and read back.                                               *)
(***************************************************************************)
CommentIds == <<"c1", "c2", "c3", "c4">>
LabelNames == <<"bug", "ui", "backend", "docs">>

\* the k-th comment of an issue; the second one carries an updated_at
CommentNo(k, issue_id) ==
    [id |-> CommentIds[k], issue_id |-> issue_id,
     author |-> IF k % 2 = 1 THEN User ELSE "alice",
     content |-> IF k % 2 = 1 THEN "reproduced" ELSE "fixed in main",
     created_at |-> datetime(20 + k, IF k % 2 = 1 THEN 0 ELSE 125),
     updated_at |-> IF k = 2 THEN datetime(30, 5) ELSE None]

WideIssues ==
    {[id |-> "id1", project_id |-> "widget", title |-> "Crash on startup",
      description |-> "It crashes at launch",
      status |-> st, priority |-> pr, author |-> User, assignee |-> as,
      created_at |-> datetime(10, 250), updated_at |-> up,
      comments |-> [k \in 1..nc |-> CommentNo(k, "id1")],
      labels |-> SubSeq(LabelNames, 1, nl)] :
        st \in IssueStatus, pr \in IssuePriority,
        as \in {None, PyStr("alice")},
        up \in {None, datetime(12, 345)},
        nc \in 0..MaxComments, nl \in 0..MaxLabels}

\* every stored record of every project is one of the edited issues
OnlyEditedStored(fs) ==
    \A p \in Projects : \A k \in 1..Len(Stored(fs, p)) : Stored(fs, p)[k] \in EditedIssues

\* save_issue of a wide issue into a directory holding at most one issue
SaveWide ==
    /\ StoredCount(files, Projects) <= 1
    /\ OnlyEditedStored(files)
    /\ SaveIssue(WideIssues)

\* save_issue of an edited issue into a directory holding none
SaveFirst ==
    /\ StoredCount(files, Projects) = 0
    /\ SaveIssue(EditedIssues)

NextRoundTrip ==
    \/ SaveFirst
    \/ SaveWide
    \/ GetIssue

SpecRoundTrip == Init /\ [][NextRoundTrip]_vars

(***************************************************************************)
(* SpecDisk: the calls on an issues directory whose files were written by  *)
(* something else: an empty file, a truncated document, a document with a  *)
(* status or a priority that is no enum value.                             *)
(***************************************************************************)
BadStatusRecord(p) == [EncodeIssue(EditedIssue("id2", p)) EXCEPT !.status = "done"]
BadPriorityRecord(p) == [EncodeIssue(EditedIssue("id2", p)) EXCEPT !.priority = "urgent"]

DiskContents(p) ==
    {Absent, TextFile(""), TextFile("[{\"id\": "), JsonFile(<<>>),
     json_dump(<<EditedIssue("id1", p)>>),
     JsonFile(<<EncodeIssue(EditedIssue("id1", p)), BadStatusRecord(p)>>),
     JsonFile(<<BadPriorityRecord(p), EncodeIssue(EditedIssue("id1", p))>>)}

\* the ids in the files at the start are ids some uuid4() call has produced
InitDisk ==
    /\ files \in {fs \in [Projects -> UNION {DiskContents(p) : p \in Projects}] :
                     \A p \in Projects : fs[p] \in DiskContents(p)}
    /\ uuids = {"id1", "id2"}
    /\ last = NoCall
    /\ procs = NoProcs
    /\ wrote = <<>>
    /\ mem = NoMem

NextDisk ==
    \/ SaveIssue({EditedIssue("id3", p) : p \in Projects})
    \/ DeleteIssue
    \/ GetIssues
    \/ GetIssue

SpecDisk == InitDisk /\ [][NextDisk]_vars

(***************************************************************************)
(* SpecConc: two processes each run save_issue once. The call is three     *)
(* steps on the shared directory: the load (get_issues), the open for      *)
(* writing, which truncates the file, and the dump. The code takes no lock *)
(* and keeps no version of what it loaded, so the steps interleave freely. *)
(***************************************************************************)
Procs == {"A", "B"}

\* the file of the shared project at the start: none, or one stored issue
ConcStart == {Absent, json_dump(<<EditedIssue("id3", "widget")>>)}

ConcIssues(self) ==
    IF self = "A" THEN {EditedIssue("id1", p) : p \in Projects}
    ELSE {EditedIssue(id, "widget") : id \in {"id1", "id2", "id3"}}

InitConc ==
    /\ files \in {[p \in Projects |-> IF p = "widget" THEN f ELSE Absent] : f \in ConcStart}
    /\ uuids = Ids
    /\ last = NoCall
    /\ procs \in {ps \in [Procs -> [pc : {"start"}, issue : EditedIssues,
                                    issues : {<<>>}, early : {FALSE}]] :
                     \A self \in Procs : ps[self].issue \in ConcIssues(self)}
    /\ wrote = <<>>
    /\ mem = NoMem

\* save_issue line 73: issues = self.get_issues(issue.project_id)
Load(self) ==
    /\ procs[self].pc = "start"
    /\ \E loaded \in {get_issues(files, procs[self].issue.project_id)} :
          procs' = [procs EXCEPT
                      ![self].pc = IF loaded.ok THEN "loaded" ELSE "raised",
                      ![self].issues = IF loaded.ok THEN loaded.val ELSE <<>>,
                      ![self].early = \A q \in Procs : procs[q].pc \in {"start", "loaded"}]
    /\ UNCHANGED <<files, uuids, last, wrote, mem>>

\* save_issue line 83: open(project_file, "w")
Open(self) ==
    /\ procs[self].pc = "loaded"
    /\ files' = Truncate(files, procs[self].issue.project_id)
    /\ procs' = [procs EXCEPT ![self].pc = "opened"]
    /\ UNCHANGED <<uuids, last, wrote, mem>>

\* save_issue lines 76-80 and 84: the upsert into the loaded list, json.dump,
\* and the close that ends the with block; the call returns
Dump(self) ==
    /\ procs[self].pc = "opened"
    /\ files' = WriteBack(files, procs[self].issues, procs[self].issue)
    /\ procs' = [procs EXCEPT ![self].pc = "done"]
    /\ wrote' = Append(wrote, self)
    /\ UNCHANGED <<uuids, last, mem>>

NextConc ==
    \/ \E self \in Procs : Load(self)
    \/ \E self \in Procs : Open(self)
    \/ \E self \in Procs : Dump(self)

SpecConc == InitConc /\ [][NextConc]_vars

(***************************************************************************)
(* The methods of the Issue class. A method is an operator from the object *)
(* before the call to the object after it (self) and the returned value    *)
(* (ret); uuid and now stand for what uuid.uuid4() and datetime.now() hand *)
(* out during the call.                                                    *)
(***************************************************************************)
\* an argument the caller leaves out
Omitted == [py |-> "omitted"]

\* a create that takes medium whatever the caller supplies
DefaultPriority_AlwaysMedium(priority) == Member("IssuePriority", "MEDIUM")

\* create(..., priority: IssuePriority = IssuePriority.MEDIUM, ...)
DefaultPriority(priority) ==
    IF priority = Omitted THEN Member("IssuePriority", "MEDIUM") ELSE priority

\* label in self.labels
HasLabel(self, label) == \E k \in DOMAIN self.labels : self.labels[k] = label

\* an add_comment that puts the new comment first
add_comment_Prepends(self, author, content, uuid, now1, now2) ==
    LET comment == [id |-> uuid, issue_id |-> self.id, author |-> author,
                    content |-> content, created_at |-> now1, updated_at |-> None]
    IN  [self |-> [self EXCEPT !.comments = <<comment>> \o @, !.updated_at = now2],
         ret |-> comment]

\* Issue.add_comment(author, content); now1 is the clock reading taken for
\* the comment's created_at, now2 the one taken for self.updated_at
add_comment(self, author, content, uuid, now1, now2) ==
    LET comment == [id |-> uuid, issue_id |-> self.id, author |-> author,
                    content |-> content, created_at |-> now1, updated_at |-> None]
    IN  [self |-> [self EXCEPT !.comments = Append(@, comment), !.updated_at = now2],
         ret |-> comment]

\* an update_status that refuses to leave closed
update_status_ClosedIsFinal(self, status, now) ==
    IF self.status = Member("IssueStatus", "CLOSED") THEN [self |-> self, ret |-> None]
    ELSE [self |-> [self EXCEPT !.status = status, !.updated_at = now], ret |-> None]

\* an update_status that leaves updated_at alone
update_status_KeepsTime(self, status, now) ==
    [self |-> [self EXCEPT !.status = status], ret |-> None]

\* Issue.update_status(status)
update_status(self, status, now) ==
    [self |-> [self EXCEPT !.status = status, !.updated_at = now], ret |-> None]

\* an update_priority that also reopens the issue
update_priority_Reopens(self, priority, now) ==
    [self |-> [self EXCEPT !.priority = priority, !.status = Member("IssueStatus", "OPEN"),
                           !.updated_at = now],
     ret |-> None]

\* Issue.update_priority(priority)
update_priority(self, priority, now) ==
    [self |-> [self EXCEPT !.priority = priority, !.updated_at = now], ret |-> None]

\* an assign that also moves the issue to another project
assign_MovesProject(self, assignee, now) ==
    [self |-> [self EXCEPT !.assignee = PyStr(assignee), !.project_id = "gadget",
                           !.updated_at = now],
     ret |-> None]

\* Issue.assign(assignee)
assign(self, assignee, now) ==
    [self |-> [self EXCEPT !.assignee = PyStr(assignee), !.updated_at = now],
     ret |-> None]

\* an add_label without the membership test
add_label_AlwaysAppends(self, label, now) ==
    [self |-> [self EXCEPT !.labels = Append(@, label), !.updated_at = now],
     ret |-> None]

\* Issue.add_label(label)
add_label(self, label, now) ==
    IF HasLabel(self, label) THEN [self |-> self, ret |-> None]
    ELSE [self |-> [self EXCEPT !.labels = Append(@, label), !.updated_at = now],
          ret |-> None]

(***************************************************************************)
(* SpecModel: a caller creates Issue objects and calls their methods; no   *)
(* storage is involved. mem holds the object the caller's variable is      *)
(* bound to, with a record of whether a mutating method has been called on *)
(* it since it was created (called) and whether one of those calls was     *)
(* anything else than an add_label of a label the issue already had        *)
(* (effective).                                                            *)
(***************************************************************************)
Held(issue, called, effective) ==
    [issue |-> issue, called |-> called, effective |-> effective]

\* x = Issue.create(...): the new object joins the objects in kept
Create(argSet, idSet, timeSet, kept) ==
    \E a \in argSet, uuid \in idSet \ uuids, now \in timeSet :
        \E issue \in {IssueCreate(a.project_id, a.title, a.description, a.author,
                                  DefaultPriority(a.priority), a.labels, uuid, now)} :
            /\ mem' = [i \in DOMAIN kept \cup {uuid} |->
                          IF i = uuid THEN Held(issue, FALSE, FALSE) ELSE kept[i]]
            /\ uuids' = uuids \cup {uuid}
            /\ last' = Call("create", [args |-> a, uuids |-> uuids], a.project_id,
                            uuid, None, Ok(issue))
            /\ UNCHANGED <<files, procs, wrote>>

\* what a mutating method call leaves behind
Mutated(id, op, input, r, effective) ==
    /\ mem' = [mem EXCEPT ![id] = Held(r.self, TRUE, @.effective \/ effective)]
    /\ last' = Call(op, input, mem[id].issue.project_id, id, mem[id].issue, Ok(r.ret))

\* x.add_comment(author, content), x one of the objects in held
AddComment(held, inputSet, idSet, clockSet) ==
    \E id \in held, input \in inputSet, uuid \in idSet \ uuids, clock \in clockSet :
        /\ Len(mem[id].issue.comments) < MaxComments
        /\ Mutated(id, "add_comment", input,
                   add_comment(mem[id].issue, input.author, input.content, uuid,
                               clock[1], clock[2]), TRUE)
        /\ uuids' = uuids \cup {uuid}
        /\ UNCHANGED <<files, procs, wrote>>

\* x.update_status(status)
UpdateStatus(held, statusSet, timeSet) ==
    \E id \in held, status \in statusSet, now \in timeSet :
        /\ Mutated(id, "update_status", status,
                   update_status(mem[id].issue, status, now), TRUE)
        /\ UNCHANGED <<files, uuids, procs, wrote>>

\* x.update_priority(priority)
UpdatePriority(held, prioritySet, timeSet) ==
    \E id \in held, priority \in prioritySet, now \in timeSet :
        /\ Mutated(id, "update_priority", priority,
                   update_priority(mem[id].issue, priority, now), TRUE)
        /\ UNCHANGED <<files, uuids, procs, wrote>>

\* x.assign(assignee)
Assign(held, assigneeSet, timeSet) ==
    \E id \in held, assignee \in assigneeSet, now \in timeSet :
        /\ Mutated(id, "assign", assignee, assign(mem[id].issue, assignee, now), TRUE)
        /\ UNCHANGED <<files, uuids, procs, wrote>>

\* x.add_label(label)
AddLabel(held, labelSet, timeSet) ==
    \E id \in held, label \in labelSet, now \in timeSet :
        /\ Mutated(id, "add_label", label, add_label(mem[id].issue, label, now),
                   ~HasLabel(mem[id].issue, label))
        /\ UNCHANGED <<files, uuids, procs, wrote>>

ModelIds == {"id1", "id2"}
CommentUuids == {CommentIds[k] : k \in 1..MaxComments}

\* the labels argument: left out, a list, and the list cmd_submit builds from
\* the command-line string "bug,bug "
CreateArgs ==
    [project_id : {"widget"}, title : {"Crash on startup"},
     description : {"It crashes at launch"}, author : {User},
     priority : {Omitted, Member("IssuePriority", "HIGH")},
     labels : {None, PyList(<<"ui">>), PyList(SplitLabels(PyStr(<<"bug", "bug ">>)))}]

CommentInputs == [author : {"alice"}, content : {"reproduced"}]

\* two readings of the clock in one call, some microseconds apart
Clocks == {<<datetime(11, 0), datetime(11, 7)>>}
ModelTimes == {datetime(11, 7), datetime(12, 345)}

NextModel ==
    \/ Create(CreateArgs, ModelIds, Times, NoMem)
    \/ AddComment(DOMAIN mem, CommentInputs, CommentUuids, Clocks)
    \/ UpdateStatus(DOMAIN mem, IssueStatus, ModelTimes)
    \/ UpdatePriority(DOMAIN mem, {Member("IssuePriority", "LOW")}, ModelTimes)
    \/ Assign(DOMAIN mem, {"alice"}, ModelTimes)
    \/ AddLabel(DOMAIN mem, {"bug", "ui"}, ModelTimes)

SpecModel == Init /\ [][NextModel]_vars

(***************************************************************************)
(* SpecSystem: a caller creates issues in several projects, calls a method *)
(* on an object it holds, saves the objects it holds and deletes stored    *)
(* issues, in any order. Each object gets at most one method call, which   *)
(* keeps the objects few; which method it is, is free.                     *)
(***************************************************************************)
SystemArgs ==
    [project_id : Projects, title : {"Crash on startup"},
     description : {"It crashes at launch"}, author : {User},
     priority : {Omitted}, labels : {None}]

\* the held objects no method was called on yet
Uncalled == {id \in DOMAIN mem : ~mem[id].called}

NextSystem ==
    \/ Create(SystemArgs, ModelIds, Times, mem)
    \/ AddComment(Uncalled, CommentInputs, CommentUuids, Clocks)
    \/ UpdateStatus(Uncalled, {Member("IssueStatus", "CLOSED")}, ModelTimes)
    \/ UpdatePriority(Uncalled, {Member("IssuePriority", "LOW")}, ModelTimes)
    \/ Assign(Uncalled, {"alice"}, ModelTimes)
    \/ AddLabel(Uncalled, {"bug"}, ModelTimes)
    \/ SaveIssue({mem[id].issue : id \in DOMAIN mem})
    \/ DeleteIssue

SpecSystem == Init /\ [][NextSystem]_vars

(***************************************************************************)
(* The list command, in cli.py (cmd_list) and in ag_issues.py (the list    *)
(* branch of issue_command). list.sort(key=..., reverse=...) is the stable *)
(* sort: an element goes behind every element whose key sorts before its   *)
(* own and behind the elements with an equal key that stood before it,     *)
(* with reverse as without.                                                *)
(***************************************************************************)
\* the position list.sort gives to the element at position i; less[j][k]
\* says whether the key of the j-th element is '<' the key of the k-th,
\* for two different elements
SortPosition(less, reverse, i) ==
    Cardinality({j \in DOMAIN less \ {i} : IF reverse THEN less[i][j] ELSE less[j][i]})
    + Cardinality({j \in 1..(i - 1) : ~less[i][j] /\ ~less[j][i]})
    + 1

\* seq.sort(key=..., reverse=reverse)
sort(seq, less, reverse) ==
    [pos \in DOMAIN seq |->
        seq[CHOOSE i \in DOMAIN seq : SortPosition(less, reverse, i) = pos]]

\* '<' on int
IntLess(a, b) == a < b

\* '<' on datetime
DatetimeLess(a, b) == a.sec < b.sec \/ (a.sec = b.sec /\ a.usec < b.usec)

\* '<' on the tuples (bool, datetime): False < True, then the datetimes
TupleLess(a, b) == (~a[1] /\ b[1]) \/ (a[1] = b[1] /\ DatetimeLess(a[2], b[2]))

\* ord() of the first character of a priority value; the four first
\* characters differ, so '<' on these strings is '<' on them
Ord(s) ==
    CASE s = "critical" -> 99
      [] s = "high" -> 104
      [] s = "low" -> 108
      [] s = "medium" -> 109

\* '<' on str, for the priority values
StrLess(a, b) == Ord(a) < Ord(b)

\* datetime.datetime.min
datetime_min == datetime(0, 0)

\* cmd_list: priority_order.get(i.priority, 4)
priority_order(priority) ==
    CASE priority = Member("IssuePriority", "CRITICAL") -> 0
      [] priority = Member("IssuePriority", "HIGH") -> 1
      [] priority = Member("IssuePriority", "MEDIUM") -> 2
      [] priority = Member("IssuePriority", "LOW") -> 3
      [] OTHER -> 4

\* what a list command leaves behind: its exit code, the filters it warned
\* about, and the issues it printed, in the order printed
Listing(exit, warned, printed) == [exit |-> exit, warned |-> warned, printed |-> printed]

\* cmd_list, the filters: a word that is no member of the enum is warned
\* about and filters nothing
FilterLenient(issues, word, parsed, field, name) ==
    IF ~Given(word) THEN [issues |-> issues, warned |-> <<>>]
    ELSE IF parsed.ok
         THEN [issues |-> SelectSeq(issues, LAMBDA i : i[field] = parsed.val),
               warned |-> <<>>]
         ELSE [issues |-> issues, warned |-> <<name>>]

\* [i for i in issues if label in i.labels]
FilterLabel(issues, label) ==
    IF ~Given(label) THEN issues
    ELSE SelectSeq(issues, LAMBDA i : HasLabel(i, label.v))

\* cmd_list, "Sort issues"
cmd_list_sort(issues, by) ==
    CASE by = "priority" ->
            Ok(sort(issues,
                    [j \in DOMAIN issues |-> [k \in DOMAIN issues |->
                        j # k /\ IntLess(priority_order(issues[j].priority),
                                         priority_order(issues[k].priority))]],
                    FALSE))
      [] by = "created" ->
            Ok(sort(issues,
                    [j \in DOMAIN issues |-> [k \in DOMAIN issues |->
                        j # k /\ DatetimeLess(issues[j].created_at, issues[k].created_at)]],
                    TRUE))
      [] by = "updated" ->
            LET key(i) == <<i.updated_at = None,
                            IF i.updated_at = None THEN datetime_min ELSE i.updated_at>>
            IN  Ok(sort(issues,
                        [j \in DOMAIN issues |-> [k \in DOMAIN issues |->
                            j # k /\ TupleLess(key(issues[j]), key(issues[k]))]],
                        TRUE))

\* issue_command, list, "Sort issues"; a sort of two or more elements
\* compares every element with another one, and '<' between None and a
\* datetime or None raises TypeError
issue_command_sort(issues, by) ==
    CASE by = "priority" ->
            Ok(sort(issues,
                    [j \in DOMAIN issues |-> [k \in DOMAIN issues |->
                        j # k /\ StrLess(EnumValue(issues[j].priority),
                                         EnumValue(issues[k].priority))]],
                    TRUE))
      [] by = "created" ->
            Ok(sort(issues,
                    [j \in DOMAIN issues |-> [k \in DOMAIN issues |->
                        j # k /\ DatetimeLess(issues[j].created_at, issues[k].created_at)]],
                    TRUE))
      [] by = "updated" ->
            IF Len(issues) >= 2 /\ \E k \in DOMAIN issues : issues[k].updated_at = None
            THEN Raise("TypeError")
            ELSE Ok(sort(issues,
                         [j \in DOMAIN issues |-> [k \in DOMAIN issues |->
                             j # k /\ DatetimeLess(issues[j].updated_at,
                                                   issues[k].updated_at)]],
                         TRUE))

\* cmd_list(args); cwd_project is what get_current_project_id() returns
cmd_list(fs, args, cwd_project) ==
    LET project == IF Given(args.project) THEN args.project ELSE cwd_project
    IN  IF ~Given(project) THEN Ok(Listing(1, <<>>, <<>>))
        ELSE LET loaded == get_issues(fs, project.v)
             IN  IF ~loaded.ok THEN loaded
                 ELSE LET byStatus ==
                              FilterLenient(loaded.val, args.status,
                                            IF Given(args.status)
                                            THEN IssueStatusOf(Lower(args.status.v))
                                            ELSE Ok(None), "status", "status")
                          byPriority ==
                              FilterLenient(byStatus.issues, args.priority,
                                            IF Given(args.priority)
                                            THEN IssuePriorityOf(Lower(args.priority.v))
                                            ELSE Ok(None), "priority", "priority")
                          sorted == cmd_list_sort(FilterLabel(byPriority.issues, args.label),
                                                  args.sort)
                      IN  IF ~sorted.ok THEN sorted
                          ELSE Ok(Listing(0, byStatus.warned \o byPriority.warned,
                                          sorted.val))

\* issue_command(["list", ...]); cwd_name is Path.cwd().name
issue_command_list(fs, args, cwd_name) ==
    LET project == IF Given(args.project) THEN args.project.v ELSE cwd_name
        loaded == get_issues(fs, project)
        status == IF Given(args.status) THEN IssueStatusOf(args.status.v) ELSE Ok(None)
        priority == IF Given(args.priority) THEN IssuePriorityOf(args.priority.v)
                    ELSE Ok(None)
    IN  IF ~loaded.ok THEN loaded
        ELSE IF ~status.ok THEN Ok(Listing(1, <<"status">>, <<>>))
        ELSE LET byStatus == FilterLenient(loaded.val, args.status, status,
                                           "status", "status").issues
             IN  IF ~priority.ok THEN Ok(Listing(1, <<"priority">>, <<>>))
                 ELSE LET byPriority == FilterLenient(byStatus, args.priority, priority,
                                                      "priority", "priority").issues
                          sorted == issue_command_sort(FilterLabel(byPriority, args.label),
                                                       args.sort)
                      IN  IF ~sorted.ok THEN sorted
                          ELSE Ok(Listing(0, <<>>, sorted.val))

\* the list command of cli.py
CmdList(inputSet) ==
    \E args \in inputSet :
        /\ last' = Call("cmd_list", args, "widget", "", None,
                        cmd_list(files, args, PyStr("widget")))
        /\ UNCHANGED <<files, uuids, procs, wrote, mem>>

\* the list command of ag_issues.py
IssueCommandList(inputSet) ==
    \E args \in inputSet :
        /\ last' = Call("issue_command", args, "widget", "", None,
                        issue_command_list(files, args, "widget"))
        /\ UNCHANGED <<files, uuids, procs, wrote, mem>>

(***************************************************************************)
(* SpecList: the widget project stores 0..MaxListed issues, of any         *)
(* priorities, each updated or never updated, and is listed by either      *)
(* implementation.                                                         *)
(***************************************************************************)
MaxListed == 3

ListIds == <<"id1", "id2", "id3", "id4", "id5">>
ListStatus == <<"OPEN", "CLOSED", "OPEN", "IN_PROGRESS", "RESOLVED">>
ListCreated == <<13, 11, 14, 12, 15>>
ListUpdated == <<22, 24, 21, 23, 25>>

\* the k-th issue of the file
ListedIssue(k, priority, updated) ==
    [id |-> ListIds[k], project_id |-> "widget", title |-> "Crash on startup",
     description |-> "It crashes at launch",
     status |-> Member("IssueStatus", ListStatus[k]), priority |-> priority,
     author |-> User, assignee |-> None,
     created_at |-> datetime(ListCreated[k], 250),
     updated_at |-> IF updated THEN datetime(ListUpdated[k], 0) ELSE None,
     comments |-> <<>>, labels |-> IF k % 2 = 1 THEN <<"bug">> ELSE <<>>]

\* list without arguments: no filter, --sort at its default
NoFilter ==
    [project |-> None, status |-> None, priority |-> None, label |-> None,
     sort |-> "priority"]

\* every sort without a filter, and the default sort with one filter
ListInputs ==
    {[NoFilter EXCEPT !.sort = by] : by \in {"priority", "created", "updated"}}
    \cup {[NoFilter EXCEPT ![f.field] = PyStr(f.word)] :
            f \in {[field |-> "status", word |-> "open"],
                   [field |-> "status", word |-> "done"],
                   [field |-> "priority", word |-> "HIGH"],
                   [field |-> "priority", word |-> "urgent"],
                   [field |-> "label", word |-> "bug"]}}

InitList ==
    /\ \E n \in 0..MaxListed :
           \E priority \in [1..n -> IssuePriority], updated \in [1..n -> BOOLEAN] :
               /\ files = [p \in Projects |->
                             IF p = "widget"
                             THEN json_dump([k \in 1..n |->
                                                ListedIssue(k, priority[k], updated[k])])
                             ELSE Absent]
               /\ uuids = {ListIds[k] : k \in 1..n}
    /\ last = NoCall
    /\ procs = NoProcs
    /\ wrote = <<>>
    /\ mem = NoMem

NextList ==
    \/ CmdList(ListInputs)
    \/ IssueCommandList(ListInputs)

SpecList == InitList /\ [][NextList]_vars

(***************************************************************************)
(* The show, comment and update commands, in cli.py (cmd_show,             *)
(* cmd_comment, cmd_update) and in ag_issues.py (branches of               *)
(* issue_command). A command leaves behind the files and its outcome: the  *)
(* exit code, the calls it made on the storage and on the issue, in order, *)
(* and the arguments it warned about.                                      *)
(***************************************************************************)
Ran(exit, calls, warned) == [exit |-> exit, calls |-> calls, warned |-> warned]

\* a command that ends before it has the issue: fs is left alone
Ended(fs, ret) == [files |-> fs, ret |-> ret]

\* a command that saves twice
SaveAndEnd_SavesTwice(fs, issue, calls, warned) ==
    LET saved == save_issue(save_issue(fs, issue).files, issue)
    IN  [files |-> saved.files,
         ret |-> Ok(Ran(0, calls \o <<"save_issue", "save_issue">>, warned))]

\* "Save the issue", and the return that follows it
SaveAndEnd(fs, issue, calls, warned) ==
    LET saved == save_issue(fs, issue)
    IN  [files |-> saved.files,
         ret |-> IF saved.ret.ok THEN Ok(Ran(0, calls \o <<"save_issue">>, warned))
                 ELSE saved.ret]

\* cmd_show(args)
cmd_show(fs, args, cwd_project) ==
    LET project == IF Given(args.project) THEN args.project ELSE cwd_project
    IN  IF ~Given(project) \/ ~Given(args.issue_id) THEN Ended(fs, Ok(Ran(1, <<>>, <<>>)))
        ELSE LET found == get_issue(fs, project.v, args.issue_id.v)
             IN  IF ~found.ok THEN Ended(fs, found)
                 ELSE IF found.val = None THEN Ended(fs, Ok(Ran(1, <<"get_issue">>, <<>>)))
                 ELSE Ended(fs, Ok(Ran(0, <<"get_issue">>, <<>>)))

\* a cmd_comment that forgets to save
cmd_comment_SkipsSave(fs, args, cwd_project, user, stdin, uuid, now1, now2) ==
    LET project == IF Given(args.project) THEN args.project ELSE cwd_project
    IN  IF ~Given(project) \/ ~Given(args.issue_id) THEN Ended(fs, Ok(Ran(1, <<>>, <<>>)))
        ELSE LET found == get_issue(fs, project.v, args.issue_id.v)
             IN  IF ~found.ok THEN Ended(fs, found)
                 ELSE IF found.val = None THEN Ended(fs, Ok(Ran(1, <<"get_issue">>, <<>>)))
                 ELSE Ended(fs, Ok(Ran(0, <<"get_issue", "add_comment">>, <<>>)))

\* cmd_comment(args); stdin is the text typed when no content is given
cmd_comment(fs, args, cwd_project, user, stdin, uuid, now1, now2) ==
    LET project == IF Given(args.project) THEN args.project ELSE cwd_project
    IN  IF ~Given(project) \/ ~Given(args.issue_id) THEN Ended(fs, Ok(Ran(1, <<>>, <<>>)))
        ELSE LET found == get_issue(fs, project.v, args.issue_id.v)
                 content == IF Given(args.content) THEN args.content.v ELSE stdin
             IN  IF ~found.ok THEN Ended(fs, found)
                 ELSE IF found.val = None THEN Ended(fs, Ok(Ran(1, <<"get_issue">>, <<>>)))
                 ELSE SaveAndEnd(fs,
                                 add_comment(found.val, user, content, uuid, now1, now2).self,
                                 <<"get_issue", "add_comment">>, <<>>)

\* the four optional changes of the update commands, applied in the order
\* of the code; strict says whether a word that is no member of the enum
\* ends the command (issue_command) or is warned about (cmd_update), lower
\* whether the word is lower-cased first (cmd_update). now is the clock
\* reading of the method calls.
ApplyChanges(issue, args, strict, lower, now) ==
    LET status == IssueStatusOf(IF lower THEN Lower(args.status.v) ELSE args.status.v)
        one == IF ~Given(args.status) THEN [issue |-> issue, calls |-> <<>>, warned |-> <<>>]
               ELSE IF status.ok
                    THEN [issue |-> update_status(issue, status.val, now).self,
                          calls |-> <<"update_status">>, warned |-> <<>>]
                    ELSE [issue |-> issue, calls |-> <<>>, warned |-> <<"status">>]
        priority == IssuePriorityOf(IF lower THEN Lower(args.priority.v)
                                    ELSE args.priority.v)
        two == IF ~Given(args.priority) \/ (strict /\ one.warned # <<>>) THEN one
               ELSE IF priority.ok
                    THEN [issue |-> update_priority(one.issue, priority.val, now).self,
                          calls |-> one.calls \o <<"update_priority">>,
                          warned |-> one.warned]
                    ELSE [one EXCEPT !.warned = @ \o <<"priority">>]
        three == IF ~Given(args.assignee) \/ (strict /\ two.warned # <<>>) THEN two
                 ELSE [two EXCEPT !.issue = assign(@, args.assignee.v, now).self,
                                  !.calls = @ \o <<"assign">>]
    IN  IF ~Given(args.add_label) \/ (strict /\ three.warned # <<>>) THEN three
        ELSE [three EXCEPT !.issue = add_label(@, args.add_label.v, now).self,
                           !.calls = @ \o <<"add_label">>]

\* cmd_update(args)
cmd_update(fs, args, cwd_project, now) ==
    LET project == IF Given(args.project) THEN args.project ELSE cwd_project
    IN  IF ~Given(project) \/ ~Given(args.issue_id) THEN Ended(fs, Ok(Ran(1, <<>>, <<>>)))
        ELSE LET found == get_issue(fs, project.v, args.issue_id.v)
             IN  IF ~found.ok THEN Ended(fs, found)
                 ELSE IF found.val = None THEN Ended(fs, Ok(Ran(1, <<"get_issue">>, <<>>)))
                 ELSE LET changed == ApplyChanges(found.val, args, FALSE, TRUE, now)
                      IN  SaveAndEnd(fs, changed.issue, <<"get_issue">> \o changed.calls,
                                     changed.warned)

\* issue_command(["show", ...]); cwd_name is Path.cwd().name
issue_command_show(fs, args, cwd_name) ==
    LET found == get_issue(fs, IF Given(args.project) THEN args.project.v ELSE cwd_name,
                           args.issue_id.v)
    IN  IF ~found.ok THEN Ended(fs, found)
        ELSE IF found.val = None THEN Ended(fs, Ok(Ran(1, <<"get_issue">>, <<>>)))
        ELSE Ended(fs, Ok(Ran(0, <<"get_issue">>, <<>>)))

\* issue_command(["comment", ...]); user is os.environ.get("USER", "unknown")
issue_command_comment(fs, args, cwd_name, user, uuid, now1, now2) ==
    LET found == get_issue(fs, IF Given(args.project) THEN args.project.v ELSE cwd_name,
                           args.issue_id.v)
    IN  IF ~found.ok THEN Ended(fs, found)
        ELSE IF found.val = None \/ ~Given(args.content)
             THEN Ended(fs, Ok(Ran(1, <<"get_issue">>, <<>>)))
        ELSE SaveAndEnd(fs,
                        add_comment(found.val, user, args.content.v, uuid, now1, now2).self,
                        <<"get_issue", "add_comment">>, <<>>)

\* issue_command(["update", ...])
issue_command_update(fs, args, cwd_name, now) ==
    LET found == get_issue(fs, IF Given(args.project) THEN args.project.v ELSE cwd_name,
                           args.issue_id.v)
    IN  IF ~found.ok THEN Ended(fs, found)
        ELSE IF found.val = None THEN Ended(fs, Ok(Ran(1, <<"get_issue">>, <<>>)))
        ELSE LET changed == ApplyChanges(found.val, args, TRUE, FALSE, now)
             IN  IF changed.warned # <<>>
                 THEN Ended(fs, Ok(Ran(1, <<"get_issue">> \o changed.calls, changed.warned)))
                 ELSE SaveAndEnd(fs, changed.issue, <<"get_issue">> \o changed.calls, <<>>)

\* a command run in the widget directory; r is what it leaves behind
Command(op, args, r) ==
    /\ files' = r.files
    /\ last' = Call(op, args, IF Given(args.project) THEN args.project.v ELSE "widget",
                    args.issue_id.v, None, r.ret)
    /\ UNCHANGED <<procs, wrote, mem>>

\* show, by either implementation
Show(inputSet) ==
    \E args \in inputSet :
        /\ \/ Command("cmd_show", args, cmd_show(files, args, PyStr("widget")))
           \/ Command("issue_command show", args, issue_command_show(files, args, "widget"))
        /\ UNCHANGED uuids

\* comment, by either implementation
Comment(inputSet, idSet, clockSet) ==
    \E args \in inputSet, uuid \in idSet \ uuids, clock \in clockSet :
        /\ \/ \E r \in {cmd_comment(files, args, PyStr("widget"), User, Stdin, uuid,
                                    clock[1], clock[2])} :
                /\ Command("cmd_comment", args, r)
                /\ uuids' = IF r.files = files THEN uuids ELSE uuids \cup {uuid}
           \/ \E r \in {issue_command_comment(files, args, "widget", User, uuid,
                                              clock[1], clock[2])} :
                /\ Command("issue_command comment", args, r)
                /\ uuids' = IF r.files = files THEN uuids ELSE uuids \cup {uuid}

\* update, by either implementation
Update(inputSet, timeSet) ==
    \E args \in inputSet, now \in timeSet :
        /\ \/ Command("cmd_update", args, cmd_update(files, args, PyStr("widget"), now))
           \/ Command("issue_command update", args,
                      issue_command_update(files, args, "widget", now))
        /\ UNCHANGED uuids

(***************************************************************************)
(* SpecCommands: two issues are stored for widget and one for gadget; the  *)
(* commands are run in the widget directory, on a stored id, on an id that *)
(* is not stored, and with --project gadget on an id of widget; get_issue  *)
(* is also called on its own.                                              *)
(***************************************************************************)
Targets ==
    {[project |-> None, issue_id |-> PyStr("id1")],
     [project |-> None, issue_id |-> PyStr("id9")],
     [project |-> PyStr("gadget"), issue_id |-> PyStr("id1")]}

WithTarget(t, rest) == [f \in DOMAIN t \cup DOMAIN rest |-> IF f \in DOMAIN t THEN t[f] ELSE rest[f]]

CommentArgs ==
    {WithTarget(t, [content |-> c]) : t \in Targets, c \in {PyStr("reproduced"), None}}

NoChange == [status |-> None, priority |-> None, assignee |-> None, add_label |-> None]

\* a valid status in two spellings, a word that is no status alone and with
\* the three other changes, and a word that is no priority after a valid status
UpdateArgs ==
    {WithTarget(t, c) : t \in Targets,
        c \in {[NoChange EXCEPT !.status = PyStr("closed")],
               [NoChange EXCEPT !.status = PyStr("CLOSED")],
               [NoChange EXCEPT !.status = PyStr("done")],
               [status |-> PyStr("done"), priority |-> PyStr("low"),
                assignee |-> PyStr("alice"), add_label |-> PyStr("bug")],
               [NoChange EXCEPT !.status = PyStr("resolved"), !.priority = PyStr("urgent")]}}

InitCommands ==
    /\ files = [p \in Projects |->
                  IF p = "widget"
                  THEN json_dump(<<ListedIssue(1, Member("IssuePriority", "MEDIUM"), FALSE),
                                   ListedIssue(2, Member("IssuePriority", "HIGH"), TRUE)>>)
                  ELSE json_dump(<<[ListedIssue(3, Member("IssuePriority", "LOW"), FALSE)
                                       EXCEPT !.project_id = p]>>)]
    /\ uuids = {"id1", "id2", "id3"}
    /\ last = NoCall
    /\ procs = NoProcs
    /\ wrote = <<>>
    /\ mem = NoMem

NextCommands ==
    \/ GetIssue
    \/ Show(Targets)
    \/ Comment(CommentArgs, CommentUuids, Clocks)
    \/ Update(UpdateArgs, {datetime(12, 345)})

SpecCommands == InitCommands /\ [][NextCommands]_vars

(***************************************************************************)
(* What the claims speak of.                                               *)
(***************************************************************************)
\* a list with position k taken out
RemoveAt(issues, k) == SubSeq(issues, 1, k - 1) \o SubSeq(issues, k + 1, Len(issues))

(***************************************************************************)
(* C1. Upsert: when save_issue(i) is called and i.id already occurs in the *)
(* project's stored list, the list keeps its length, exactly one record    *)
(* carries i.id, that record equals i and sits where the old record sat,   *)
(* and every other record is unchanged at its position.                    *)
(***************************************************************************)
C1_UpsertInPlace ==
    last.op = "save_issue" =>
    \A before \in {Stored(last.pre, last.project)}, after \in {Stored(files, last.project)} :
        PositionsOfId(before, last.id) # {} =>
            /\ last.ret = Ok(None)
            /\ Len(after) = Len(before)
            /\ Cardinality(PositionsOfId(after, last.id)) = 1
            /\ \A k \in 1..Len(before) :
                  after[k] = IF before[k].id = last.id THEN last.issue ELSE before[k]

\* an issue in the middle of a list of three is saved again under a new title
C1_Witness ==
    /\ last.op = "save_issue"
    /\ Len(Stored(last.pre, last.project)) = 3
    /\ Stored(last.pre, last.project)[2].id = last.id
    /\ Stored(last.pre, last.project)[2].title # last.issue.title
    /\ Stored(files, last.project)[2].title = last.issue.title

\* the priority the submit command hands to create for each --priority word used here
C2_PriorityGiven(word) ==
    IF word = PyStr("HIGH") THEN Member("IssuePriority", "HIGH")
    ELSE Member("IssuePriority", "MEDIUM")

(***************************************************************************)
(* C2. Append on a new id: when the submit command creates an issue and    *)
(* saves it, and the issue's id is not in the project's stored list, then  *)
(* get_issues returns the previous issues, unchanged and in order,         *)
(* followed by the new issue as the last element, with status open and the *)
(* priority given at creation; with no file before, the result has one     *)
(* element.                                                                *)
(***************************************************************************)
C2_AppendOnNewId ==
    (last.op = "submit" /\ last.issue # None) =>
    \A before \in {Stored(last.pre, last.project)}, after \in {Stored(files, last.project)} :
        PositionsOfId(before, last.id) = {} =>
            /\ last.ret = Ok(0)
            /\ after = before \o <<last.issue>>
            /\ after[Len(after)].status = Member("IssueStatus", "OPEN")
            /\ after[Len(after)].priority = C2_PriorityGiven(last.input.args.priority)
            /\ (~exists(last.pre[last.project]) => Len(after) = 1)

\* a high-priority issue is submitted to a project that holds two issues
C2_Witness ==
    /\ last.op = "submit"
    /\ last.ret = Ok(0)
    /\ last.input.args.priority = PyStr("HIGH")
    /\ Len(Stored(last.pre, last.project)) = 2
    /\ Len(Stored(files, last.project)) = 3
    /\ Stored(files, last.project)[3].id = last.id

(***************************************************************************)
(* C3. Round trip: for every issue i (any status, any priority, updated_at *)
(* set or unset, any number of comments and labels), save_issue(i)         *)
(* followed by get_issue(i.project_id, i.id) returns an issue equal to i   *)
(* in every field: the enum members, an unset updated_at, the comments in  *)
(* their order.                                                            *)
(***************************************************************************)
C3_RoundTrip ==
    last.op = "save_issue" =>
        /\ last.ret = Ok(None)
        /\ get_issue(files, last.issue.project_id, last.issue.id) = Ok(last.issue)

\* a closed, critical, never-updated issue with MaxComments comments and
\* MaxLabels labels replaces the stored record of its id
C3_Witness ==
    /\ last.op = "save_issue"
    /\ last.issue.status = Member("IssueStatus", "CLOSED")
    /\ last.issue.priority = Member("IssuePriority", "CRITICAL")
    /\ last.issue.updated_at = None
    /\ Len(last.issue.comments) = MaxComments
    /\ Len(last.issue.labels) = MaxLabels
    /\ PositionsOfId(Stored(last.pre, "widget"), "id1") # {}
    /\ Stored(files, "widget")[1].comments[2].updated_at = datetime(30, 5)

(***************************************************************************)
(* C4. Starting from an empty issues directory, after any sequence of      *)
(* save_issue and delete_issue calls no project's stored list holds two    *)
(* issues with the same id.                                                *)
(***************************************************************************)
C4_UniqueIdsPerProject ==
    \A p \in Projects :
        \A issues \in {Stored(files, p)} :
            \A a, b \in 1..Len(issues) : issues[a].id = issues[b].id => a = b

\* an id stored in a list of two or more has just been saved again
C4_Witness ==
    /\ last.op = "save_issue"
    /\ PositionsOfId(Stored(last.pre, last.project), last.id) # {}
    /\ Len(Stored(files, last.project)) >= 2
    /\ last.pre # files

\* both calls are over, both loaded before either opened the file for writing,
\* on one project, with different ids that neither loaded list holds
C5_BothLoadedFirst ==
    /\ \A self \in Procs : procs[self].pc = "done" /\ procs[self].early
    /\ procs["A"].issue.project_id = procs["B"].issue.project_id
    /\ procs["A"].issue.id # procs["B"].issue.id
    /\ \A self \in Procs : PositionsOfId(procs[self].issues, procs["A"].issue.id) = {}
    /\ \A self \in Procs : PositionsOfId(procs[self].issues, procs["B"].issue.id) = {}

(***************************************************************************)
(* C5. Lost update: two processes run save_issue on the same project, each *)
(* with a different issue whose id is not stored. Whenever both loads      *)
(* happen before either open for writing, both calls return normally and   *)
(* the final file holds what the last writer loaded plus the last writer's *)
(* issue; the other process's issue is not in it. No lock or version token *)
(* keeps the interleaving from happening (the witness reaches it).         *)
(***************************************************************************)
C5_LostUpdate ==
    Procs \subseteq DOMAIN procs =>
    /\ \A self \in Procs : procs[self].pc # "raised"
    /\ C5_BothLoadedFirst =>
        \A winner \in {wrote[Len(wrote)]} :
        \A loser \in Procs \ {winner} :
        \A final \in {Stored(files, procs[winner].issue.project_id)} :
            /\ Len(wrote) = 2
            /\ final = procs[winner].issues \o <<procs[winner].issue>>
            /\ PositionsOfId(final, procs[loser].issue.id) = {}

\* both processes loaded a file that holds one issue, A wrote first, B last:
\* the file holds the old issue and B's, and A's issue is gone
C5_Witness ==
    /\ Procs \subseteq DOMAIN procs
    /\ C5_BothLoadedFirst
    /\ wrote = <<"A", "B">>
    /\ Len(procs["A"].issues) = 1
    /\ Len(Stored(files, "widget")) = 2
    /\ Stored(files, "widget")[2] = procs["B"].issue
    /\ PositionsOfId(Stored(files, "widget"), procs["A"].issue.id) = {}

(***************************************************************************)
(* C6. delete_issue(project, id) with an id that no stored issue of the    *)
(* project carries returns False and writes nothing: every file is as it   *)
(* was, and a project without a file still has none.                       *)
(***************************************************************************)
C6_DeleteMissingIsNoOp ==
    (last.op = "delete_issue"
        /\ PositionsOfId(Stored(last.pre, last.project), last.id) = {}) =>
            /\ last.ret = Ok(FALSE)
            /\ files = last.pre
            /\ exists(files[last.project]) = exists(last.pre[last.project])

\* the id is deleted from a project that has no file while the other project has issues
C6_Witness ==
    /\ last.op = "delete_issue"
    /\ last.ret = Ok(FALSE)
    /\ ~exists(last.pre[last.project])
    /\ \E q \in Projects : Len(Stored(files, q)) >= 1

(***************************************************************************)
(* C7. delete_issue(project, id) with an id in the project's stored list   *)
(* returns True; afterwards get_issue(project, id) finds nothing and the   *)
(* other issues of the project are stored unchanged in the same order.     *)
(***************************************************************************)
C7_DeleteStored ==
    last.op = "delete_issue" =>
    \A before \in {Stored(last.pre, last.project)}, after \in {Stored(files, last.project)} :
        \A k \in PositionsOfId(before, last.id) :
            /\ last.ret = Ok(TRUE)
            /\ get_issue(files, last.project, last.id) = Ok(None)
            /\ after = RemoveAt(before, k)

\* the middle issue of a list of three is deleted
C7_Witness ==
    /\ last.op = "delete_issue"
    /\ last.ret = Ok(TRUE)
    /\ Len(Stored(last.pre, last.project)) = 3
    /\ Stored(last.pre, last.project)[2].id = last.id
    /\ Len(Stored(files, last.project)) = 2

(***************************************************************************)
(* C8. get_issues(project) for a project that has no file returns the      *)
(* empty sequence, raises nothing, creates no file and changes no stored   *)
(* state.                                                                  *)
(***************************************************************************)
C8_GetIssuesNoFile ==
    (last.op = "get_issues" /\ ~exists(last.pre[last.project])) =>
        /\ last.ret = Ok(<<>>)
        /\ files = last.pre
        /\ ~exists(files[last.project])

\* get_issues on a project without a file while the other project has issues
C8_Witness ==
    /\ last.op = "get_issues"
    /\ ~exists(files[last.project])
    /\ last.ret.ok
    /\ \E q \in Projects : exists(files[q])

(***************************************************************************)
(* C9. get_issues(project) for a project whose file exists but is no JSON  *)
(* document (an empty file included) returns the empty sequence, raises    *)
(* nothing and leaves the file as it is.                                   *)
(***************************************************************************)
C9_GetIssuesUnparseable ==
    (last.op = "get_issues"
        /\ last.pre[last.project].kind = "file"
        /\ last.pre[last.project].syntax = "text") =>
            /\ last.ret = Ok(<<>>)
            /\ files = last.pre

\* get_issues on an empty file
C9_Witness ==
    /\ last.op = "get_issues"
    /\ files[last.project] = TextFile("")
    /\ last.ret = Ok(<<>>)

\* the strings the enums accept, and a file holding a record outside them
C10_StatusWords == {"open", "in_progress", "resolved", "closed"}
C10_PriorityWords == {"low", "medium", "high", "critical"}

C10_HasUnknownEnum(f) ==
    /\ f.kind = "file"
    /\ f.syntax = "json"
    /\ \E k \in 1..Len(f.doc) :
          \/ f.doc[k].status \notin C10_StatusWords
          \/ f.doc[k].priority \notin C10_PriorityWords

(***************************************************************************)
(* C10. When a project's file is a well-formed JSON document in which some *)
(* issue has a status or a priority outside the enum's values, get_issues  *)
(* and get_issue fail with an error: they return neither the empty list    *)
(* nor the list without the bad record.                                    *)
(***************************************************************************)
C10_UnknownEnumRaises ==
    (last.op \in {"get_issues", "get_issue"}
        /\ C10_HasUnknownEnum(last.pre[last.project])) =>
            /\ ~last.ret.ok
            /\ last.ret.exc = "ValueError"

\* get_issue asks for the good record of a file whose second record has a bad status
C10_Witness ==
    /\ last.op = "get_issue"
    /\ last.id = "id1"
    /\ files[last.project].kind = "file"
    /\ files[last.project].syntax = "json"
    /\ Len(files[last.project].doc) = 2
    /\ files[last.project].doc[1].id = "id1"
    /\ files[last.project].doc[2].status = "done"
    /\ ~last.ret.ok

(***************************************************************************)
(* C11. Issue.create returns an issue with a non-empty id that differs     *)
(* from the id of every issue created before it, status open, updated_at   *)
(* unset, no assignee, no comments, and the supplied priority, or medium   *)
(* when the caller supplies none.                                          *)
(***************************************************************************)
C11_CreateResult ==
    last.op = "create" =>
        \A issue \in {last.ret.val} :
            /\ issue.id # ""
            /\ issue.id \notin last.input.uuids
            /\ issue.status = Member("IssueStatus", "OPEN")
            /\ issue.updated_at = None
            /\ issue.assignee = None
            /\ issue.comments = <<>>
            /\ issue.priority = IF last.input.args.priority = Omitted
                                THEN Member("IssuePriority", "MEDIUM")
                                ELSE last.input.args.priority
            /\ mem[last.id].issue = issue

\* a second create, with a priority supplied, after an issue that got a comment
C11_Witness ==
    /\ last.op = "create"
    /\ last.input.uuids \cap ModelIds # {}
    /\ last.input.uuids \cap CommentUuids # {}
    /\ last.input.args.priority = Member("IssuePriority", "HIGH")

\* the number of times label occurs in labels
Occurrences(labels, label) == Cardinality({k \in DOMAIN labels : labels[k] = label})

(***************************************************************************)
(* C12. add_label(L) on an issue that has L changes nothing, neither the   *)
(* labels nor updated_at. add_label(L) called twice on an issue without L  *)
(* leaves exactly one L, appended after the labels the issue had, with     *)
(* updated_at as the first call set it.                                    *)
(***************************************************************************)
C12_AddLabelIdempotent ==
    /\ (last.op = "add_label" /\ HasLabel(last.issue, last.input)) =>
            mem[last.id].issue = last.issue
    /\ \A id \in DOMAIN mem, label \in {"bug", "docs"}, now1 \in ModelTimes, now2 \in ModelTimes :
            ~HasLabel(mem[id].issue, label) =>
                \A once \in {add_label(mem[id].issue, label, now1).self} :
                    \A twice \in {add_label(once, label, now2).self} :
                        /\ twice.labels = Append(mem[id].issue.labels, label)
                        /\ Occurrences(twice.labels, label) = 1
                        /\ once.updated_at = now1
                        /\ twice.updated_at = now1
                        /\ twice = once

\* the second add_label("bug") on an issue created with the label ui
C12_Witness ==
    /\ last.op = "add_label"
    /\ last.input = "bug"
    /\ last.issue.labels = <<"ui", "bug">>
    /\ last.issue.updated_at = datetime(11, 7)
    /\ \E id \in DOMAIN mem : ~HasLabel(mem[id].issue, "docs")

(***************************************************************************)
(* C13. The labels of an issue hold no entry twice in any state reached by *)
(* create, with any labels argument (the list the submit command builds    *)
(* from a comma-separated string included), followed by any calls of       *)
(* add_label, add_comment, update_status, update_priority and assign.      *)
(***************************************************************************)
C13_LabelsUnique ==
    \A id \in DOMAIN mem :
        \A j \in DOMAIN mem[id].issue.labels, k \in DOMAIN mem[id].issue.labels :
            mem[id].issue.labels[j] = mem[id].issue.labels[k] => j = k

(***************************************************************************)
(* C14. In every state reached from create by calls of add_comment,        *)
(* update_status, update_priority, assign and add_label, updated_at is set *)
(* iff at least one of those calls has been made on the issue since it was *)
(* created.                                                                *)
(***************************************************************************)
C14_UpdatedIffCalled ==
    \A id \in DOMAIN mem : (mem[id].issue.updated_at # None) <=> mem[id].called

(***************************************************************************)
(* C14, amended. updated_at is set iff at least one call other than an     *)
(* add_label of a label the issue already had has been made on the issue   *)
(* since it was created.                                                   *)
(***************************************************************************)
C14_UpdatedIffEffectiveCall ==
    \A id \in DOMAIN mem : (mem[id].issue.updated_at # None) <=> mem[id].effective

\* an issue on which only add_label calls of labels it already had were made
C14_Witness ==
    \E id \in DOMAIN mem :
        /\ mem[id].called
        /\ ~mem[id].effective
        /\ last.op = "add_label"
        /\ Occurrences(mem[id].issue.labels, last.input) = 1

\* the field a method is named for
NamedField(op) ==
    CASE op = "add_comment" -> "comments"
      [] op = "update_status" -> "status"
      [] op = "update_priority" -> "priority"
      [] op = "assign" -> "assignee"
      [] op = "add_label" -> "labels"

MethodNames == {"add_comment", "update_status", "update_priority", "assign", "add_label"}

(***************************************************************************)
(* C16. Each of add_comment, update_status, update_priority, assign and    *)
(* add_label leaves id, project_id, author, created_at, title and          *)
(* description as they were, and changes no field other than the one it is *)
(* named for and updated_at.                                               *)
(***************************************************************************)
C16_Frame ==
    last.op \in MethodNames =>
        \A post \in {mem[last.id].issue} :
            /\ DOMAIN post = DOMAIN last.issue
            /\ \A f \in {"id", "project_id", "author", "created_at", "title", "description"} :
                    post[f] = last.issue[f]
            /\ \A f \in DOMAIN post \ {NamedField(last.op), "updated_at"} :
                    post[f] = last.issue[f]

\* update_priority on a closed, assigned issue with two comments and a label
C16_Witness ==
    /\ last.op = "update_priority"
    /\ last.issue.status = Member("IssueStatus", "CLOSED")
    /\ last.issue.assignee = PyStr("alice")
    /\ Len(last.issue.comments) = 2
    /\ last.issue.labels # <<>>
    /\ mem[last.id].issue.priority # last.issue.priority

\* earlier is a prefix of later
IsPrefix(earlier, later) ==
    /\ Len(earlier) <= Len(later)
    /\ SubSeq(later, 1, Len(earlier)) = earlier

(***************************************************************************)
(* C17. Comments are append-only. add_comment(author, content) adds        *)
(* exactly one comment, at the end, with a fresh id, issue_id equal to the *)
(* issue's id and the given author and content, returns that comment and   *)
(* sets updated_at; over every step of every sequence of calls the         *)
(* comments an issue had before the step are a prefix of those it has      *)
(* after it.                                                               *)
(***************************************************************************)
C17_CommentsAppendOnly ==
    [][/\ \A id \in DOMAIN mem \cap DOMAIN mem' :
              IsPrefix(mem[id].issue.comments, mem'[id].issue.comments)
       /\ last'.op = "add_comment" =>
              \A pre \in {mem[last'.id].issue}, post \in {mem'[last'.id].issue},
                 comment \in {last'.ret.val} :
                  /\ last'.ret.ok
                  /\ post.comments = Append(pre.comments, comment)
                  /\ comment.id \notin uuids
                  /\ \A k \in DOMAIN pre.comments : pre.comments[k].id # comment.id
                  /\ comment.issue_id = pre.id
                  /\ comment.author = last'.input.author
                  /\ comment.content = last'.input.content
                  /\ post.updated_at \in {clock[2] : clock \in Clocks}]_vars

\* a second comment on an issue whose updated_at another method has set
C17_Witness ==
    /\ last.op = "add_comment"
    /\ Len(last.issue.comments) = 1
    /\ last.issue.updated_at = datetime(12, 345)
    /\ Len(mem[last.id].issue.comments) = 2

(***************************************************************************)
(* C18. There is no transition graph: for every current status s and every *)
(* target t, t = s and closed to open included, update_status(t) succeeds, *)
(* leaves status = t and sets updated_at; every one of the four statuses   *)
(* is reachable from every other.                                          *)
(***************************************************************************)
C18_AnyStatusToAny ==
    /\ last.op = "update_status" =>
            /\ last.ret = Ok(None)
            /\ mem[last.id].issue.status = last.input
            /\ mem[last.id].issue.updated_at \in ModelTimes
    /\ \A id \in DOMAIN mem, t \in IssueStatus :
            /\ ENABLED UpdateStatus({id}, {t}, ModelTimes)
            /\ \A now \in ModelTimes :
                   \A r \in {update_status(mem[id].issue, t, now)} :
                       r.self.status = t /\ r.self.updated_at = now /\ r.ret = None

\* a closed issue is reopened
C18_Witness ==
    /\ last.op = "update_status"
    /\ last.issue.status = Member("IssueStatus", "CLOSED")
    /\ last.input = Member("IssueStatus", "OPEN")
    /\ mem[last.id].issue.status = Member("IssueStatus", "OPEN")

(***************************************************************************)
(* C15. Issue ids are unique across the whole system: after any sequence   *)
(* of create, method calls, save_issue and delete_issue over several       *)
(* projects, no id occurs in the stored lists of two different projects,   *)
(* nor twice in one.                                                       *)
(***************************************************************************)
C15_UniqueIdsAcrossProjects ==
    \A p \in Projects, q \in Projects :
        \A ps \in {Stored(files, p)}, qs \in {Stored(files, q)} :
            \A j \in DOMAIN ps, k \in DOMAIN qs :
                ps[j].id = qs[k].id => (p = q /\ j = k)

\* an issue a method was called on is saved into a project that did not
\* store it, while the other project stores an issue too
C15_Witness ==
    /\ last.op = "save_issue"
    /\ last.issue.updated_at # None
    /\ PositionsOfId(Stored(last.pre, last.project), last.id) = {}
    /\ PositionsOfId(Stored(files, last.project), last.id) # {}
    /\ \A p \in Projects : Stored(files, p) # <<>>

\* critical, high, medium, low: the place of a priority in that order
PriorityPlace(priority) ==
    CHOOSE n \in 1..4 : <<"CRITICAL", "HIGH", "MEDIUM", "LOW">>[n] = priority.name

ListOps == {"cmd_list", "issue_command"}

\* the printed issues are the given ones, each once
SameIssues(printed, given) ==
    /\ Len(printed) = Len(given)
    /\ \A k \in DOMAIN given : \E j \in DOMAIN printed : printed[j] = given[k]

(***************************************************************************)
(* C19. The list command with sort = priority, the default, prints the     *)
(* issues ordered critical, high, medium, low, whatever priorities the     *)
(* stored issues have: low, critical, medium stored in that order come out *)
(* critical, medium, low. This holds for cmd_list and for issue_command.   *)
(***************************************************************************)
C19_PrioritySort ==
    (last.op \in ListOps /\ last.input.sort = "priority") =>
        /\ last.ret.ok
        /\ last.input = NoFilter =>
                SameIssues(last.ret.val.printed, Stored(last.pre, last.project))
        /\ \A j \in DOMAIN last.ret.val.printed, k \in DOMAIN last.ret.val.printed :
                j < k => PriorityPlace(last.ret.val.printed[j].priority)
                            <= PriorityPlace(last.ret.val.printed[k].priority)

(***************************************************************************)
(* C20. The list command with sort = updated ends with exit code 0 and     *)
(* prints the issues that have an updated_at newest first, and every issue *)
(* whose updated_at is unset after all of those, for any mix of updated    *)
(* and never-updated issues.                                               *)
(***************************************************************************)
C20_UpdatedSortNoneLast ==
    (last.op \in ListOps /\ last.input.sort = "updated") =>
        /\ last.ret.ok
        /\ last.ret.val.exit = 0
        /\ SameIssues(last.ret.val.printed, Stored(last.pre, last.project))
        /\ \A j \in DOMAIN last.ret.val.printed, k \in DOMAIN last.ret.val.printed :
                j < k =>
                    \A a \in {last.ret.val.printed[j].updated_at},
                       b \in {last.ret.val.printed[k].updated_at} :
                        /\ a = None => b = None
                        /\ (a # None /\ b # None) => ~DatetimeLess(a, b)

(***************************************************************************)
(* C21. The list command given a status or priority filter that is no      *)
(* value of the enum warns, does not abort, filters nothing on that field  *)
(* (all issues of the project stay candidates) and returns exit code 0; a  *)
(* valid filter word is matched whatever its case.                         *)
(***************************************************************************)
C21_BadFilterWarns ==
    last.op \in ListOps =>
        /\ (Given(last.input.status) /\ ~IssueStatusOf(Lower(last.input.status.v)).ok) =>
                /\ last.ret = Ok(Listing(0, <<"status">>, last.ret.val.printed))
                /\ SameIssues(last.ret.val.printed, Stored(last.pre, last.project))
        /\ (Given(last.input.priority)
                /\ ~IssuePriorityOf(Lower(last.input.priority.v)).ok) =>
                /\ last.ret = Ok(Listing(0, <<"priority">>, last.ret.val.printed))
                /\ SameIssues(last.ret.val.printed, Stored(last.pre, last.project))
        /\ (Given(last.input.priority)
                /\ IssuePriorityOf(Lower(last.input.priority.v)).ok) =>
                /\ last.ret = Ok(Listing(0, <<>>, last.ret.val.printed))
                /\ SameIssues(last.ret.val.printed,
                              SelectSeq(Stored(last.pre, last.project),
                                        LAMBDA i : i.priority
                                            = IssuePriorityOf(Lower(last.input.priority.v)).val))

UpdateOps == {"cmd_update", "issue_command update"}
CommentOps == {"cmd_comment", "issue_command comment"}
ShowOps == {"cmd_show", "issue_command show"}

\* the issue the last command was aimed at was stored before it
TargetStored == PositionsOfId(Stored(last.pre, last.project), last.id) # {}

\* the issue the last command was aimed at, before and after it
TargetBefore == get_issue(last.pre, last.project, last.id).val
TargetAfter == get_issue(files, last.project, last.id).val

(***************************************************************************)
(* C22. The update command given a --status word that is no status, for an *)
(* issue that exists, warns, leaves the status of the issue as it was,     *)
(* still applies the other changes asked for (priority, assignee, label),  *)
(* saves the issue and returns exit code 0.                                *)
(***************************************************************************)
C22_BadStatusOnUpdate ==
    (/\ last.op \in UpdateOps
     /\ TargetStored
     /\ Given(last.input.status)
     /\ ~IssueStatusOf(Lower(last.input.status.v)).ok) =>
        /\ last.ret.ok
        /\ last.ret.val.exit = 0
        /\ last.ret.val.warned = <<"status">>
        /\ last.ret.val.calls[Len(last.ret.val.calls)] = "save_issue"
        /\ TargetAfter.status = TargetBefore.status
        /\ Given(last.input.priority) =>
                TargetAfter.priority = IssuePriorityOf(Lower(last.input.priority.v)).val
        /\ Given(last.input.assignee) => TargetAfter.assignee = last.input.assignee
        /\ Given(last.input.add_label) => HasLabel(TargetAfter, last.input.add_label.v)

(***************************************************************************)
(* C23. get_issue returns None, and raises nothing, when the id is not     *)
(* stored for the project, and each of the show, comment and update        *)
(* commands then returns exit code 1 without calling save_issue, so the    *)
(* stored files are as they were.                                          *)
(***************************************************************************)
C23_NotFound ==
    /\ (last.op = "get_issue"
            /\ PositionsOfId(Stored(last.pre, last.project), last.id) = {}) =>
                last.ret = Ok(None)
    /\ (last.op \in ShowOps \cup CommentOps \cup UpdateOps /\ ~TargetStored) =>
            /\ last.ret = Ok(Ran(1, <<"get_issue">>, <<>>))
            /\ files = last.pre

\* an update with --project gadget on an id that widget stores, after a
\* comment was stored
C23_Witness ==
    /\ last.op = "cmd_update"
    /\ last.project = "gadget"
    /\ PositionsOfId(Stored(files, "widget"), last.id) # {}
    /\ ~TargetStored
    /\ Stored(files, "gadget") # <<>>
    /\ \E k \in DOMAIN Stored(files, "widget") : Stored(files, "widget")[k].comments # <<>>

\* the issues of the last command's project other than its target are
\* stored as before, each at its position
OthersUnchanged ==
    \A before \in {Stored(last.pre, last.project)}, after \in {Stored(files, last.project)} :
        /\ Len(after) = Len(before)
        /\ \A k \in DOMAIN before :
                IF before[k].id = last.id THEN after[k].id = last.id
                ELSE after[k] = before[k]

(***************************************************************************)
(* C24. The comment command, for an issue that exists and a non-empty      *)
(* content, loads the issue once, calls add_comment once, with the current *)
(* user and the given content, saves the issue once and returns 0; the     *)
(* stored issue then has exactly one more comment than before, as its last *)
(* one, and every other issue of the project is unchanged.                 *)
(***************************************************************************)
C24_CommentCommand ==
    (last.op \in CommentOps /\ TargetStored /\ Given(last.input.content)) =>
        /\ last.ret = Ok(Ran(0, <<"get_issue", "add_comment", "save_issue">>, <<>>))
        /\ \A before \in {TargetBefore}, after \in {TargetAfter} :
                /\ Len(after.comments) = Len(before.comments) + 1
                /\ SubSeq(after.comments, 1, Len(before.comments)) = before.comments
                /\ \A comment \in {after.comments[Len(after.comments)]} :
                        /\ comment.author = User
                        /\ comment.content = last.input.content.v
                        /\ comment.issue_id = last.id
                /\ [after EXCEPT !.comments = before.comments,
                                 !.updated_at = before.updated_at] = before
        /\ OthersUnchanged

\* a second comment on the first of two stored issues, by issue_command
C24_Witness ==
    /\ last.op = "issue_command comment"
    /\ TargetStored
    /\ Len(TargetBefore.comments) = 1
    /\ Len(TargetAfter.comments) = 2
    /\ Len(Stored(files, last.project)) = 2

(***************************************************************************)
(* C25. The update command of cli.py, for an issue that exists and a valid *)
(* status word s, loads the issue once, applies update_status(s) once,     *)
(* saves the issue once and returns 0; get_issue then returns the issue    *)
(* with status s and updated_at set, the issue is stored at the position   *)
(* it had, and every other issue of the project is unchanged.              *)
(***************************************************************************)
C25_UpdateCommand ==
    (/\ last.op = "cmd_update"
     /\ TargetStored
     /\ Given(last.input.status)
     /\ IssueStatusOf(Lower(last.input.status.v)).ok) =>
        /\ last.ret.ok
        /\ last.ret.val.exit = 0
        /\ \A call \in {"get_issue", "update_status", "save_issue"} :
                Occurrences(last.ret.val.calls, call) = 1
        /\ get_issue(files, last.project, last.id).ok
        /\ TargetAfter.status = IssueStatusOf(Lower(last.input.status.v)).val
        /\ TargetAfter.updated_at # None
        /\ IndexOfId(Stored(files, last.project), last.id)
                = IndexOfId(Stored(last.pre, last.project), last.id)
        /\ OthersUnchanged

\* --status CLOSED on the first of two stored issues, which was not closed
C25_Witness ==
    /\ last.op = "cmd_update"
    /\ TargetStored
    /\ last.input.status = PyStr("CLOSED")
    /\ TargetBefore.status # Member("IssueStatus", "CLOSED")
    /\ TargetAfter.status = Member("IssueStatus", "CLOSED")
    /\ IndexOfId(Stored(files, last.project), last.id) = 1
    /\ Len(Stored(files, last.project)) = 2

(***************************************************************************)
(* C26. After any sequence of save_issue and delete_issue calls, a project *)
(* id is in the result of get_all_project_ids if and only if get_issues    *)
(* for that project returns at least one issue.                            *)
(***************************************************************************)
C26_ProjectIdsHaveIssues ==
    last.op = "get_all_project_ids" =>
        \A p \in Projects :
            p \in last.ret.val <=> (get_issues(files, p).ok /\ Len(Stored(files, p)) >= 1)

(***************************************************************************)
(* C27. When a project's file exists but is no JSON document, save_issue(i)*)
(* returns normally and rewrites the file so that get_issues afterwards    *)
(* returns exactly <<i>>: what the file held is discarded and no error is  *)
(* reported.                                                               *)
(***************************************************************************)
C27_SaveOverCorruptFile ==
    (last.op = "save_issue"
        /\ last.pre[last.project].kind = "file"
        /\ last.pre[last.project].syntax = "text") =>
            /\ last.ret = Ok(None)
            /\ get_issues(files, last.project) = Ok(<<last.issue>>)
            /\ files[last.project] = json_dump(<<last.issue>>)

\* save_issue over a truncated document
C27_Witness ==
    /\ last.op = "save_issue"
    /\ last.pre[last.project] = TextFile("[{\"id\": ")
    /\ get_issues(files, last.project) = Ok(<<last.issue>>)

(***************************************************************************)
(* C28. When a project's file is a well-formed JSON document holding an    *)
(* issue with an unrecognized status or priority, save_issue and           *)
(* delete_issue on that project fail with the decode error before the file *)
(* is opened for writing: the file holds exactly what it held before.      *)
(***************************************************************************)
C28_FailedWriteKeepsFile ==
    (last.op \in {"save_issue", "delete_issue"}
        /\ C10_HasUnknownEnum(last.pre[last.project])) =>
            /\ ~last.ret.ok
            /\ last.ret.exc = "ValueError"
            /\ files = last.pre

\* save_issue on a file whose second record has the status "done"
C28_Witness ==
    /\ last.op = "save_issue"
    /\ last.pre[last.project].kind = "file"
    /\ last.pre[last.project].syntax = "json"
    /\ Len(last.pre[last.project].doc) = 2
    /\ last.pre[last.project].doc[2].status = "done"
    /\ ~last.ret.ok
    /\ files[last.project] = last.pre[last.project]

\* the directory with the files of the projects other than p replaced by f
OnlyFileOf(fs, p, f) == [q \in DOMAIN fs |-> IF q = p THEN fs[q] ELSE f]

\* the outcome of the last save_issue or delete_issue, had the directory been fs
LastCallOn(fs) ==
    IF last.op = "save_issue" THEN save_issue(fs, last.issue)
    ELSE delete_issue(fs, last.project, last.id)

(***************************************************************************)
(* C29. save_issue(i) and delete_issue(p, id) read and write only the file *)
(* of their own project: the file of every other project is unchanged, the *)
(* outcome is the same whatever the other files hold, and get_issue(q, id) *)
(* for a project q other than the one an issue was saved under returns     *)
(* None.                                                                   *)
(***************************************************************************)
C29_PerProjectIsolation ==
    last.op \in {"save_issue", "delete_issue"} =>
        /\ \A q \in Projects \ {last.project} :
              /\ files[q] = last.pre[q]
              /\ last.op = "save_issue" => get_issue(files, q, last.id) = Ok(None)
        /\ \A f \in {Absent, TextFile("[{\"id\": "), JsonFile(<<BadStatusRecord("gadget")>>)} :
              \E r \in {LastCallOn(OnlyFileOf(last.pre, last.project, f))} :
                  /\ r.ret = last.ret
                  /\ r.files[last.project] = files[last.project]
                  /\ \A q \in Projects \ {last.project} : r.files[q] = f

\* an issue is saved into its project while the other project stores an issue
C29_Witness ==
    /\ last.op = "save_issue"
    /\ files[last.project] # last.pre[last.project]
    /\ \E q \in Projects \ {last.project} :
          /\ Stored(files, q) # <<>>
          /\ files[q] = last.pre[q]
          /\ get_issue(files, q, last.id) = Ok(None)

====
